---- MODULE Spec2Model ----
(***************************************************************************)
(* A model of scripts/azure_snapshot_cleanup.py: the AzureSnapshotManager  *)
(* (disk_exists, find_orphaned_snapshots, delete_orphaned_snapshots) and   *)
(* the deletion gate of main.  The Azure SDK clients are the environment:  *)
(* every answer they give is drawn from a small set at the call.           *)
(*                                                                         *)
(* Strings that the code splits, joins or lower-cases are sequences of     *)
(* tokens: "/" and ":" are tokens of their own, so that split('/') and     *)
(* the f-string cache key are computed, not assumed.                       *)
(***************************************************************************)
EXTENDS Integers, Sequences, FiniteSets, TLC

\* ------------------------------------------------------------------ bounds

\* Calls a client makes on one manager (find / delete / disk_exists).
MaxOps == 3

\* ------------------------------------------------------ python values

\* Python's None; every optional attribute holds None or a wrapped value.
None == [t |-> "None"]

PyStr(s) == [t |-> "str", s |-> s]

PyInt(n) == [t |-> "int", n |-> n]

PyDict(d) == [t |-> "dict", d |-> d]

PyTime(d, h) == [t |-> "datetime", date |-> d, clock |-> h]

PyObj(o) == [t |-> "obj", o |-> o]

\* Python truthiness of the values the code tests with `if x` / `and x`.
Truthy(v) ==
    CASE v.t = "None" -> FALSE
      [] v.t = "str" -> v.s # <<>>
      [] v.t = "dict" -> v.d # <<>>
      [] v.t = "int" -> v.n # 0
      [] OTHER -> TRUE

\* hasattr(o, a) for a wrapped value: None has no attribute of the model.
HasAttr(v, a) == v.t = "obj" /\ a \in DOMAIN v.o

\* --------------------------------------------------------- str.split

\* s.split(sep) on a token sequence: the segments between the separators,
\* each again a token sequence (an empty segment is <<>>).
RECURSIVE SplitFrom(_, _, _, _)
SplitFrom(s, sep, i, cur) ==
    IF i > Len(s) THEN <<cur>>
    ELSE IF s[i] = sep THEN <<cur>> \o SplitFrom(s, sep, i + 1, <<>>)
    ELSE SplitFrom(s, sep, i + 1, Append(cur, s[i]))

Split(s, sep) == SplitFrom(s, sep, 1, <<>>)

\* -------------------------------------------------------- str.lower

LowerChar(c) ==
    CASE c = "Y" -> "y"
      [] c = "E" -> "e"
      [] c = "S" -> "s"
      [] c = "N" -> "n"
      [] c = "O" -> "o"
      [] OTHER -> c

Lower(s) == [i \in 1..Len(s) |-> LowerChar(s[i])]

\* ------------------------------------------------------- the fixture

Subs == {"sub-A", "sub-B"}

SubName(s) == IF s = "sub-A" THEN "Alpha" ELSE "Beta"

\* /subscriptions/{sub}/resourceGroups/{rg}/providers/{ns}/{type}/{name}
ResourceId(sub, rg, ns, type, name) ==
    <<"/", "subscriptions", "/", sub, "/", "resourceGroups", "/", rg,
      "/", "providers", "/", ns, "/", type, "/", name>>

DiskId(sub, rg, name) == ResourceId(sub, rg, "Microsoft.Compute", "disks", name)

SnapId(sub, rg, name) == ResourceId(sub, rg, "Microsoft.Compute", "snapshots", name)

\* Source ids that fail the format check of disk_exists.
ShortId == <<"/", "subscriptions", "/", "sub-A", "/", "resourceGroups", "/", "rg1">>

WrongProviderId == ResourceId("sub-B", "rg2", "Microsoft.Storage", "disks", "d2")

WrongTypeId == ResourceId("sub-B", "rg2", "Microsoft.Compute", "images", "d2")

\* A valid id with a tenth segment: the code accepts any id of 9 or more.
LongId == DiskId("sub-A", "rg1", "d3") \o <<"/", "extra">>

\* A snapshot as the SDK lists it: the attributes present on the object.
Snapshot(sub, rg, name, attrs) ==
    PyObj([id |-> SnapId(sub, rg, name), name |-> name] @@ attrs)

CreationData(src) == PyObj([source_resource_id |-> src])

\* sub-A
SnapA1 ==
    Snapshot("sub-A", "rgS", "a1",
             [creation_data |-> CreationData(PyStr(DiskId("sub-A", "rg1", "d1")))])

SnapA2 ==
    Snapshot("sub-A", "rgS", "a2",
             [creation_data |-> CreationData(PyStr(DiskId("sub-B", "rg1", "d1"))),
              disk_size_gb |-> None, time_created |-> None, tags |-> None])

SnapA3 == Snapshot("sub-A", "rgS", "a3", [disk_size_gb |-> PyInt(5)])

SnapA4 ==
    Snapshot("sub-A", "rgT", "a4",
             [creation_data |-> CreationData(PyStr(ShortId)),
              disk_size_gb |-> PyInt(10),
              time_created |-> PyTime(<<2024, 3, 9>>, <<7, 5, 0>>),
              tags |-> PyDict(<<<<"env", "prod">>>>)])

SnapA5 ==
    Snapshot("sub-A", "rgT", "a5",
             [creation_data |-> CreationData(PyStr(DiskId("sub-A", "rg1", "d1"))),
              disk_size_gb |-> PyInt(0), tags |-> PyDict(<<>>)])

SnapA6 ==
    Snapshot("sub-A", "rgT", "a6", [creation_data |-> CreationData(PyStr(LongId))])

\* sub-B
SnapB1 ==
    Snapshot("sub-B", "rgS", "b1",
             [creation_data |-> CreationData(PyStr(DiskId("sub-B", "rg1", "d1"))),
              disk_size_gb |-> PyInt(20),
              time_created |-> PyTime(<<2023, 12, 31>>, <<23, 59, 59>>)])

SnapB2 == Snapshot("sub-B", "rgS", "b2", [creation_data |-> CreationData(PyStr(<<>>))])

SnapB3 == Snapshot("sub-B", "rgS", "b3", [creation_data |-> CreationData(None)])

SnapB4 == Snapshot("sub-B", "rgS", "b4", [creation_data |-> None])

SnapB5 == Snapshot("sub-B", "rgS", "b5", [creation_data |-> PyObj([x |-> None])])

SnapB6 ==
    Snapshot("sub-B", "rgT", "b6", [creation_data |-> CreationData(PyStr(WrongProviderId))])

SnapB7 ==
    Snapshot("sub-B", "rgT", "b7", [creation_data |-> CreationData(PyStr(WrongTypeId))])

\* What a subscription can hold: the snapshots its snapshots.list() returns,
\* in the order it returns them.
Listings(sub) ==
    IF sub = "sub-A"
    THEN {<<SnapA1, SnapA3, SnapA5>>, <<SnapA4, SnapA2>>, <<SnapA6, SnapA1>>}
    ELSE {<<SnapB1, SnapB2, SnapB6>>, <<SnapB3, SnapB4, SnapB1>>, <<SnapB7, SnapB5>>}

\* The subscriptions the credential can see, in the order subscriptions.list()
\* returns them.
SubLists == {<<>>, <<"sub-A">>, <<"sub-B">>, <<"sub-A", "sub-B">>, <<"sub-B", "sub-A">>}

\* What each subscription holds, for every choice of the fixture.
Holdings ==
    {f \in [Subs -> UNION {Listings(x) : x \in Subs}] :
       \A x \in Subs : f[x] \in Listings(x)}

\* A tenant: the visible subscriptions, in order, and what each holds.  It is
\* fixed for one behaviour; the faults of the calls and the answers of
\* disks.get are drawn at each call.
Tenants ==
    UNION {{[i \in 1..Len(l) |->
               [id |-> l[i], name |-> SubName(l[i]), snapshots |-> f[l[i]]]] :
              f \in Holdings} : l \in SubLists}

\* The subscription of a tenant with this id, as a sequence of 0 or 1.
Lookup(t, id) == SelectSeq(t, LAMBDA e : e.id = id)

\* The source ids a client may pass to disk_exists directly.
SourceIds ==
    {DiskId("sub-A", "rg1", "d1"), DiskId("sub-B", "rg1", "d1"), ShortId,
     WrongProviderId, WrongTypeId, LongId, <<>>}

\* ------------------------------------------------------------- state

VARIABLES
    tenant,                    \* the environment: subscriptions and their snapshots
    mode,                      \* "api": a client drives the manager; "main": main() does
    args,                      \* main's parsed arguments (delete, dry_run)
    specific_subscription_id,  \* self.specific_subscription_id
    disk_cache,                \* self.disk_cache
    orphaned_snapshots,        \* self.orphaned_snapshots
    pc,                        \* where the running call stands
    subscriptions,             \* find_orphaned_snapshots: local subscriptions
    si,                        \* ... position of the loop over subscriptions
    snapshots,                 \* ... local snapshots of the scope being scanned
    ji,                        \* ... position of the loop over snapshots
    dry_run,                   \* delete_orphaned_snapshots: its argument
    di,                        \* ... position of the loop over orphaned_snapshots
    successful,                \* ... local successful
    failed,                    \* ... local failed
    ret,                       \* what the last finished call returned or raised
    status,                    \* main's return value (-1 while it runs)
    confirmation,              \* main: the operator's answer to the prompt
    ops,                       \* history: calls a client has made on the manager
    scans,                     \* history: calls of find_orphaned_snapshots so far
    prevScan,                  \* history: the result of the scan before the last
    listed,                    \* history: what snapshots.list() gave in this scan
    lookups,                   \* history: disks.get calls of the running call
    lookupCount,               \* history: disks.get calls per cache key, ever
    delCalls,                  \* history: begin_delete calls of the running call
    faults,                    \* history: positions of the running delete's faults
    okDeletes                  \* history: begin_delete calls that succeeded since the last scan

vars ==
    <<mode, args, specific_subscription_id, disk_cache, orphaned_snapshots, pc,
      subscriptions, si, snapshots, ji, dry_run, di, successful, failed, ret,
      status, confirmation, ops, scans, prevScan, listed, lookups, lookupCount,
      delCalls, faults, okDeletes, tenant>>

managerVars == <<disk_cache, orphaned_snapshots>>

findHist == <<scans, prevScan, listed>>

diskHist == <<lookups, lookupCount>>

delHist == <<delCalls, faults, okDeletes>>

findLocals == <<subscriptions, si, snapshots, ji>>

deleteLocals == <<dry_run, di, successful, failed>>

configVars == <<tenant, mode, args, specific_subscription_id>>

\* ------------------------------------------------------- disk_exists

\* cache_key = f"{subscription_id}:{source_resource_id}"
CacheKey(subscription_id, source_resource_id) ==
    <<subscription_id, ":">> \o source_resource_id

\* What disks.get can answer: the disk, ResourceNotFoundError, or another
\* AzureError (throttling, a 5xx, a network fault).
DiskAnswers == {"found", "not_found", "fault"}

\* Mutant: only the number of segments is checked.
InvalidFormat_LengthOnly(parts) == Len(parts) < 9

\* if len(parts) < 9 or parts[6] != 'Microsoft.Compute' or parts[7] != 'disks'
\* (python indexes from 0, TLA+ from 1)
InvalidFormat(parts) ==
    IF Len(parts) < 9 THEN TRUE
    ELSE IF parts[7] # <<"Microsoft.Compute">> THEN TRUE
    ELSE parts[8] # <<"disks">>

\* Mutant: the call goes to the subscription the disk id names.
DiskCall_UsesIdSubscription(subscription_id, source_resource_id) ==
    LET parts == Split(source_resource_id, "/")
    IN  [sub |-> IF parts[3] = <<>> THEN subscription_id ELSE parts[3][1],
         resource_group |-> parts[5],
         disk_name |-> parts[9],
         key |-> CacheKey(subscription_id, source_resource_id)]

\* The disks.get call disk_exists makes for a well-formed id.
DiskCall(subscription_id, source_resource_id) ==
    LET parts == Split(source_resource_id, "/")
    IN  [sub |-> subscription_id, resource_group |-> parts[5],
         disk_name |-> parts[9],
         key |-> CacheKey(subscription_id, source_resource_id)]

\* Whether disk_exists reaches disks.get from this cache.
NeedsLookup(cache, subscription_id, source_resource_id) ==
    /\ CacheKey(subscription_id, source_resource_id) \notin DOMAIN cache
    /\ ~InvalidFormat(Split(source_resource_id, "/"))

\* except AzureError: what disk_exists does with a failed disks.get.
\* Both ResourceNotFoundError and every other AzureError are caught here.
OnDiskError(cache, key, answer) == [ret |-> FALSE, cache |-> cache @@ (key :> FALSE)]

\* Mutant: the cache is written but never read.
disk_exists_NoCacheRead(cache, subscription_id, source_resource_id, answer) ==
    LET cache_key == CacheKey(subscription_id, source_resource_id)
        parts == Split(source_resource_id, "/")
        written(v) == [k \in DOMAIN cache \cup {cache_key} |->
                         IF k = cache_key THEN v ELSE cache[k]]
    IN  IF InvalidFormat(parts)
        THEN [ret |-> FALSE, cache |-> written(FALSE), calls |-> <<>>]
        ELSE [ret |-> answer = "found", cache |-> written(answer = "found"),
              calls |-> <<DiskCall(subscription_id, source_resource_id)
                          @@ [answer |-> answer]>>]

\* disk_exists(subscription_id, source_resource_id) from `cache`, with the
\* answer disks.get gives if it is called: the value returned, the cache
\* afterwards, and the disks.get calls made (each with the answer it got).
disk_exists(cache, subscription_id, source_resource_id, answer) ==
    LET cache_key == CacheKey(subscription_id, source_resource_id)
        parts == Split(source_resource_id, "/")
    IN  IF cache_key \in DOMAIN cache
        THEN [ret |-> cache[cache_key], cache |-> cache, calls |-> <<>>]
        ELSE IF InvalidFormat(parts)
        THEN [ret |-> FALSE, cache |-> cache @@ (cache_key :> FALSE), calls |-> <<>>]
        ELSE LET call == DiskCall(subscription_id, source_resource_id)
                         @@ [answer |-> answer]
             IN  IF answer = "found"
                 THEN [ret |-> TRUE, cache |-> cache @@ (cache_key :> TRUE),
                       calls |-> <<call>>]
                 ELSE OnDiskError(cache, cache_key, answer) @@ [calls |-> <<call>>]

\* The answers worth drawing for a disk_exists call.
AnswersFor(cache, subscription_id, source_resource_id) ==
    IF NeedsLookup(cache, subscription_id, source_resource_id)
    THEN DiskAnswers ELSE {"unasked"}

\* ------------------------------------------- find_orphaned_snapshots

\* Mutant: the source id is tested with `is not None`, so "" passes.
HasSource_NotNone(snapshot) ==
    IF ~HasAttr(snapshot, "creation_data") THEN FALSE
    ELSE IF ~HasAttr(snapshot.o.creation_data, "source_resource_id") THEN FALSE
    ELSE snapshot.o.creation_data.o.source_resource_id # None

\* hasattr(snapshot, 'creation_data') and
\* hasattr(snapshot.creation_data, 'source_resource_id') and
\* snapshot.creation_data.source_resource_id
HasSource(snapshot) ==
    IF ~HasAttr(snapshot, "creation_data") THEN FALSE
    ELSE IF ~HasAttr(snapshot.o.creation_data, "source_resource_id") THEN FALSE
    ELSE Truthy(snapshot.o.creation_data.o.source_resource_id)

SourceOf(snapshot) == snapshot.o.creation_data.o.source_resource_id.s

DigitChars == <<"0", "1", "2", "3", "4", "5", "6", "7", "8", "9">>

RECURSIVE Digits(_, _)
Digits(n, width) ==
    IF width = 0 THEN <<>>
    ELSE Append(Digits(n \div 10, width - 1), DigitChars[(n % 10) + 1])

\* time_created.strftime('%Y-%m-%d %H:%M:%S UTC')
Strftime(time) ==
    Digits(time.date[1], 4) \o <<"-">> \o Digits(time.date[2], 2) \o <<"-">>
    \o Digits(time.date[3], 2) \o <<" ">> \o Digits(time.clock[1], 2) \o <<":">>
    \o Digits(time.clock[2], 2) \o <<":">> \o Digits(time.clock[3], 2)
    \o <<" ", "UTC">>

Unknown == PyStr(<<"Unknown">>)

\* size_gb = snapshot.disk_size_gb if hasattr(snapshot, 'disk_size_gb') else 0
SizeGb(snapshot) ==
    IF HasAttr(snapshot, "disk_size_gb") THEN snapshot.o.disk_size_gb ELSE PyInt(0)

CreatedTime(snapshot) ==
    IF HasAttr(snapshot, "time_created")
    THEN IF Truthy(snapshot.o.time_created)
         THEN PyStr(Strftime(snapshot.o.time_created)) ELSE Unknown
    ELSE Unknown

\* tags = snapshot.tags if hasattr(snapshot, 'tags') and snapshot.tags else {}
Tags(snapshot) ==
    IF HasAttr(snapshot, "tags") /\ Truthy(snapshot.o.tags)
    THEN snapshot.o.tags ELSE PyDict(<<>>)

\* The dictionary appended for an orphaned snapshot.
OrphanRecord(subscription, snapshot) ==
    [subscription_id |-> subscription.id,
     subscription_name |-> subscription.name,
     resource_group |-> Split(snapshot.o.id, "/")[5],
     name |-> snapshot.o.name,
     id |-> snapshot.o.id,
     source_disk_id |-> SourceOf(snapshot),
     size_gb |-> SizeGb(snapshot),
     created_time |-> CreatedTime(snapshot),
     tags |-> Tags(snapshot)]

\* -------------------------------------------------------------- inputs

\* What the operator can type at the confirmation prompt.
Answers ==
    {<<"y">>, <<"Y">>, <<"n">>, <<>>, <<"y", "e", "s">>, <<"Y", "E", "S">>,
     <<" ", "y">>}

\* begin_delete succeeds, raises, or its poller raises in wait().
DeleteOutcomes == {"ok", "begin_fault", "wait_fault"}

NoResult == [kind |-> "none"]

Returned(op, val) == [kind |-> "return", op |-> op, val |-> val]

Raised(op, exc) == [kind |-> "raise", op |-> op, exc |-> exc]

\* ---------------------------------------------------------------- Init

\* __init__: an empty cache and an empty result list.
Init ==
    /\ tenant \in Tenants
    /\ mode \in {"api", "main"}
    /\ args \in [delete : BOOLEAN, dry_run : BOOLEAN]
    /\ mode = "api" => args = [delete |-> FALSE, dry_run |-> FALSE]
    /\ specific_subscription_id \in {None, PyStr(<<"sub-A">>)}
    /\ disk_cache = <<>>
    /\ orphaned_snapshots = <<>>
    /\ pc = IF mode = "api" THEN "idle" ELSE "main"
    /\ subscriptions = <<>>
    /\ si = 1
    /\ snapshots = <<>>
    /\ ji = 1
    /\ dry_run = TRUE
    /\ di = 1
    /\ successful = 0
    /\ failed = 0
    /\ ret = NoResult
    /\ status = -1
    /\ confirmation = None
    /\ ops = 0
    /\ scans = 0
    /\ prevScan = <<>>
    /\ listed = <<>>
    /\ lookups = <<>>
    /\ lookupCount = <<>>
    /\ delCalls = <<>>
    /\ faults = {}
    /\ okDeletes = 0

\* ------------------------------------------------------ control flow

\* Mutant: main's except clause reports success.
Raise_ReturnsZero(op, exc) ==
    /\ ret' = Raised(op, exc)
    /\ pc' = IF mode = "api" THEN "idle" ELSE "exit"
    /\ status' = IF mode = "api" THEN status ELSE 0

\* An exception leaves the running call: to the client, or to main's
\* `except Exception`, which returns 1.
Raise(op, exc) ==
    /\ ret' = Raised(op, exc)
    /\ pc' = IF mode = "api" THEN "idle" ELSE "exit"
    /\ status' = IF mode = "api" THEN status ELSE 1

\* Mutant: a scan adds to the list the previous scan left.
EnterFind_KeepsOldResult ==
    /\ orphaned_snapshots' = orphaned_snapshots
    /\ pc' = "get_subscriptions"
    /\ scans' = scans + 1
    /\ prevScan' = orphaned_snapshots
    /\ listed' = <<>>
    /\ lookups' = <<>>
    /\ delCalls' = <<>>
    /\ okDeletes' = 0
    /\ UNCHANGED <<disk_cache, findLocals, deleteLocals, ret, status, confirmation,
                   lookupCount, faults>>

\* Entry of find_orphaned_snapshots: self.orphaned_snapshots = [].
EnterFind ==
    /\ orphaned_snapshots' = <<>>
    /\ pc' = "get_subscriptions"
    /\ scans' = scans + 1
    /\ prevScan' = orphaned_snapshots
    /\ listed' = <<>>
    /\ lookups' = <<>>
    /\ delCalls' = <<>>
    /\ okDeletes' = 0
    /\ UNCHANGED <<disk_cache, findLocals, deleteLocals, ret, status, confirmation,
                   lookupCount, faults>>

\* Mutant: an empty list is refused instead of reported as (0, 0).
DeleteEntry_RefusesEmpty(orphans) ==
    IF orphans = <<>> THEN Raised("delete", "ValueError") ELSE [kind |-> "loop"]

\* if not self.orphaned_snapshots: return (0, 0)
DeleteEntry(orphans) ==
    IF orphans = <<>> THEN Returned("delete", <<0, 0>>) ELSE [kind |-> "loop"]

\* Entry of delete_orphaned_snapshots(dry_run=d).
EnterDelete(d) ==
    /\ dry_run' = d
    /\ delCalls' = <<>>
    /\ lookups' = <<>>
    /\ faults' = {}
    /\ UNCHANGED okDeletes
    /\ LET entry == DeleteEntry(orphaned_snapshots)
       IN  CASE entry.kind = "return" ->
                  /\ ret' = entry
                  /\ pc' = IF mode = "api" THEN "idle" ELSE "exit"
                  /\ status' = IF mode = "api" THEN status ELSE 0
                  /\ UNCHANGED <<di, successful, failed>>
             [] entry.kind = "raise" ->
                  /\ Raise("delete", entry.exc)
                  /\ UNCHANGED <<di, successful, failed>>
             [] OTHER ->
                  /\ successful' = 0
                  /\ failed' = 0
                  /\ di' = 1
                  /\ pc' = "delete"
                  /\ UNCHANGED <<ret, status>>
    /\ UNCHANGED <<managerVars, findLocals, findHist, lookupCount>>

\* ---------------------------------------------------- a client's calls

CallFind ==
    /\ mode = "api" /\ pc = "idle" /\ ops < MaxOps
    /\ ops' = ops + 1
    /\ EnterFind
    /\ UNCHANGED configVars

CallDelete ==
    /\ mode = "api" /\ pc = "idle" /\ ops < MaxOps
    /\ ops' = ops + 1
    /\ \E d \in BOOLEAN : EnterDelete(d)
    /\ UNCHANGED <<configVars, confirmation>>

\* Counting the disks.get calls made on behalf of each cache key.
Counted(count, calls) ==
    IF calls = <<>> THEN count
    ELSE LET k == calls[1].key
         IN  IF k \in DOMAIN count
             THEN [count EXCEPT ![k] = @ + 1] ELSE count @@ (k :> 1)

CallDiskExists ==
    /\ mode = "api" /\ pc = "idle" /\ ops < MaxOps
    /\ ops' = ops + 1
    /\ \E sub \in Subs, id \in SourceIds :
         \E answer \in AnswersFor(disk_cache, sub, id) :
           LET r == disk_exists(disk_cache, sub, id, answer)
           IN  /\ disk_cache' = r.cache
               /\ ret' = Returned("disk_exists",
                                   [sub |-> sub, id |-> id, val |-> r.ret,
                                    hit |-> CacheKey(sub, id) \in DOMAIN disk_cache])
               /\ lookups' = r.calls
               /\ lookupCount' = Counted(lookupCount, r.calls)
    /\ delCalls' = <<>>
    /\ UNCHANGED <<configVars, orphaned_snapshots, pc, findLocals, deleteLocals,
                   status, confirmation, findHist, faults, okDeletes>>

\* ----------------------------------- find_orphaned_snapshots, by step

\* subscriptions = self.get_subscriptions(): subscriptions.get(id) for a
\* configured id, subscriptions.list() otherwise.  Either call can raise
\* (get always does for an id the tenant does not hold); nothing in
\* find_orphaned_snapshots catches it.
GetSubscriptions ==
    /\ pc = "get_subscriptions"
    /\ \/ /\ Truthy(specific_subscription_id)
          /\ Lookup(tenant, specific_subscription_id.s[1]) # <<>>
          /\ subscriptions' =
               [i \in {1} |->
                  LET subscription_detail ==
                        Lookup(tenant, specific_subscription_id.s[1])[1]
                  IN  [id |-> subscription_detail.id,
                       name |-> subscription_detail.name]]
          /\ si' = 1
          /\ pc' = "scan"
          /\ UNCHANGED <<ret, status>>
       \/ /\ ~Truthy(specific_subscription_id)
          /\ subscriptions' =
               [i \in 1..Len(tenant) |-> [id |-> tenant[i].id, name |-> tenant[i].name]]
          /\ si' = 1
          /\ pc' = "scan"
          /\ UNCHANGED <<ret, status>>
       \/ /\ Raise("find", "AzureError")
          /\ UNCHANGED <<subscriptions, si>>
    /\ UNCHANGED <<configVars, managerVars, snapshots, ji, deleteLocals, confirmation,
                   ops, findHist, diskHist, delHist>>

\* Mutant: the try wraps the whole loop, so a listing fault ends the scan.
OnListError_AbortsScan == si' = Len(subscriptions) + 1 /\ pc' = "scan"

\* What find_orphaned_snapshots does when snapshots.list() raises:
\* except AzureError logs, and the loop goes on with the next subscription.
OnListError == si' = si + 1 /\ pc' = "scan"

\* The head of `for subscription in subscriptions`:
\* snapshots = list(compute_client.snapshots.list()), which can raise.
ListSnapshots ==
    /\ pc = "scan" /\ si <= Len(subscriptions)
    /\ LET sub_id == subscriptions[si].id
           l == Lookup(tenant, sub_id)[1].snapshots
       IN  \/ /\ snapshots' = l
              /\ listed' = Append(listed, [sub |-> sub_id, ok |-> TRUE, snapshots |-> l])
              /\ ji' = 1
              /\ IF l = <<>> THEN si' = si + 1 /\ pc' = "scan"
                 ELSE si' = si /\ pc' = "snapshot"
           \/ /\ listed' = Append(listed, [sub |-> sub_id, ok |-> FALSE, snapshots |-> <<>>])
              /\ OnListError
              /\ UNCHANGED <<snapshots, ji>>
    /\ UNCHANGED <<configVars, managerVars, subscriptions, deleteLocals, ret, status,
                   confirmation, ops, scans, prevScan, diskHist, delHist>>

\* Mutant: a new record is put at the head of the list.
ScanSnapshot_Prepends ==
    /\ pc = "snapshot" /\ ji <= Len(snapshots)
    /\ LET subscription == subscriptions[si]
           snapshot == snapshots[ji]
       IN  IF HasSource(snapshot)
           THEN \E answer \in AnswersFor(disk_cache, subscription.id, SourceOf(snapshot)) :
                  LET r == disk_exists(disk_cache, subscription.id,
                                       SourceOf(snapshot), answer)
                  IN  /\ disk_cache' = r.cache
                      /\ lookups' = lookups \o r.calls
                      /\ lookupCount' = Counted(lookupCount, r.calls)
                      /\ orphaned_snapshots' =
                           IF ~r.ret
                           THEN <<OrphanRecord(subscription, snapshot)>>
                                  \o orphaned_snapshots
                           ELSE orphaned_snapshots
           ELSE UNCHANGED <<disk_cache, lookups, lookupCount, orphaned_snapshots>>
    /\ IF ji < Len(snapshots)
       THEN ji' = ji + 1 /\ UNCHANGED <<si, pc>>
       ELSE ji' = ji + 1 /\ si' = si + 1 /\ pc' = "scan"
    /\ UNCHANGED <<configVars, subscriptions, snapshots, deleteLocals, ret, status,
                   confirmation, ops, findHist, delHist>>

\* One turn of `for snapshot in snapshots`, the disk_exists call included.
ScanSnapshot ==
    /\ pc = "snapshot" /\ ji <= Len(snapshots)
    /\ LET subscription == subscriptions[si]
           snapshot == snapshots[ji]
       IN  IF HasSource(snapshot)
           THEN \E answer \in AnswersFor(disk_cache, subscription.id, SourceOf(snapshot)) :
                  LET r == disk_exists(disk_cache, subscription.id,
                                       SourceOf(snapshot), answer)
                  IN  /\ disk_cache' = r.cache
                      /\ lookups' = lookups \o r.calls
                      /\ lookupCount' = Counted(lookupCount, r.calls)
                      /\ orphaned_snapshots' =
                           IF ~r.ret
                           THEN Append(orphaned_snapshots,
                                       OrphanRecord(subscription, snapshot))
                           ELSE orphaned_snapshots
           ELSE UNCHANGED <<disk_cache, lookups, lookupCount, orphaned_snapshots>>
    /\ IF ji < Len(snapshots)
       THEN ji' = ji + 1 /\ UNCHANGED <<si, pc>>
       ELSE ji' = ji + 1 /\ si' = si + 1 /\ pc' = "scan"
    /\ UNCHANGED <<configVars, subscriptions, snapshots, deleteLocals, ret, status,
                   confirmation, ops, findHist, delHist>>

\* return self.orphaned_snapshots
FindReturn ==
    /\ pc = "scan" /\ si > Len(subscriptions)
    /\ ret' = Returned("find", orphaned_snapshots)
    /\ pc' = IF mode = "api" THEN "idle" ELSE "main_gate"
    /\ subscriptions' = <<>>
    /\ si' = 1
    /\ snapshots' = <<>>
    /\ ji' = 1
    /\ UNCHANGED <<configVars, managerVars, deleteLocals, status, confirmation, ops,
                   findHist, diskHist, delHist>>

\* --------------------------------- delete_orphaned_snapshots, by step

\* Mutant: the dry_run test is dropped, begin_delete is always called.
DeleteStep_IgnoresDryRun(is_dry_run, outcome) ==
    IF outcome \in {"begin_fault", "wait_fault"}
    THEN [successful |-> 0, failed |-> 1, called |-> TRUE]
    ELSE [successful |-> 1, failed |-> 0, called |-> TRUE]

\* Mutant: the except clause counts the record as deleted.
DeleteStep_FaultCountsAsSuccess(is_dry_run, outcome) ==
    IF is_dry_run THEN [successful |-> 1, failed |-> 0, called |-> FALSE]
    ELSE [successful |-> 1, failed |-> 0, called |-> TRUE]

\* The body of the try for one record: what it adds to successful and
\* failed, and whether begin_delete is called.
DeleteStep(is_dry_run, outcome) ==
    IF is_dry_run THEN [successful |-> 1, failed |-> 0, called |-> FALSE]
    ELSE IF outcome = "ok" THEN [successful |-> 1, failed |-> 0, called |-> TRUE]
    ELSE [successful |-> 0, failed |-> 1, called |-> TRUE]

\* Mutant: a record whose deletion raised is tried again.
DeleteOne_RetriesFailed ==
    /\ pc = "delete" /\ di <= Len(orphaned_snapshots)
    /\ LET snapshot == orphaned_snapshots[di]
           call == [sub |-> snapshot.subscription_id,
                    resource_group |-> snapshot.resource_group,
                    name |-> snapshot.name]
       IN  \E outcome \in (IF dry_run THEN {"unasked"} ELSE DeleteOutcomes) :
             LET step == DeleteStep(dry_run, outcome)
             IN  /\ successful' = successful + step.successful
                 /\ failed' = failed + step.failed
                 /\ delCalls' = IF step.called THEN Append(delCalls, call) ELSE delCalls
                 /\ faults' = IF outcome \in {"begin_fault", "wait_fault"}
                              THEN faults \cup {di} ELSE faults
                 /\ okDeletes' = IF step.called /\ outcome = "ok"
                                 THEN okDeletes + 1 ELSE okDeletes
                 /\ di' = IF step.failed > 0 /\ di \notin faults THEN di ELSE di + 1
    /\ UNCHANGED <<configVars, managerVars, findLocals, dry_run, pc, ret, status,
                   confirmation, ops, findHist, diskHist>>

\* One turn of `for snapshot in self.orphaned_snapshots`.
DeleteOne ==
    /\ pc = "delete" /\ di <= Len(orphaned_snapshots)
    /\ LET snapshot == orphaned_snapshots[di]
           call == [sub |-> snapshot.subscription_id,
                    resource_group |-> snapshot.resource_group,
                    name |-> snapshot.name]
       IN  \E outcome \in (IF dry_run THEN {"unasked"} ELSE DeleteOutcomes) :
             LET step == DeleteStep(dry_run, outcome)
             IN  /\ successful' = successful + step.successful
                 /\ failed' = failed + step.failed
                 /\ delCalls' = IF step.called THEN Append(delCalls, call) ELSE delCalls
                 /\ faults' = IF outcome \in {"begin_fault", "wait_fault"}
                              THEN faults \cup {di} ELSE faults
                 /\ okDeletes' = IF step.called /\ outcome = "ok"
                                 THEN okDeletes + 1 ELSE okDeletes
    /\ di' = di + 1
    /\ UNCHANGED <<configVars, managerVars, findLocals, dry_run, pc, ret, status,
                   confirmation, ops, findHist, diskHist>>

\* Mutant: the list is emptied once its records have been deleted.
DeleteReturn_ClearsList ==
    /\ pc = "delete" /\ di > Len(orphaned_snapshots)
    /\ ret' = Returned("delete", <<successful, failed>>)
    /\ pc' = IF mode = "api" THEN "idle" ELSE "exit"
    /\ status' = IF mode = "api" THEN status ELSE 0
    /\ orphaned_snapshots' = IF dry_run THEN orphaned_snapshots ELSE <<>>
    /\ UNCHANGED <<configVars, disk_cache, findLocals, deleteLocals, confirmation,
                   ops, findHist, diskHist, delHist>>

\* return (successful, failed); in main, the results are printed and
\* main returns 0.
DeleteReturn ==
    /\ pc = "delete" /\ di > Len(orphaned_snapshots)
    /\ ret' = Returned("delete", <<successful, failed>>)
    /\ pc' = IF mode = "api" THEN "idle" ELSE "exit"
    /\ status' = IF mode = "api" THEN status ELSE 0
    /\ UNCHANGED <<configVars, managerVars, findLocals, deleteLocals, confirmation,
                   ops, findHist, diskHist, delHist>>

\* ------------------------------------------------------------- main

\* get_credential, the manager's construction and the call of
\* find_orphaned_snapshots; get_credential can raise.
MainStart ==
    /\ mode = "main" /\ pc = "main"
    /\ \/ EnterFind
       \/ /\ Raise("main", "Exception")
          /\ UNCHANGED <<managerVars, findLocals, deleteLocals, confirmation,
                         findHist, diskHist, delHist>>
    /\ UNCHANGED <<configVars, ops>>

\* Mutant: only an explicit n declines.
Declined_OnlyNo(answer) == Lower(answer) = <<"n">>

\* confirmation.lower() != 'y'
Declined(answer) == Lower(answer) # <<"y">>

\* main returns 0 without calling the executor.
MainReturn ==
    /\ pc' = "exit"
    /\ status' = 0
    /\ UNCHANGED <<managerVars, findLocals, deleteLocals, ret, findHist, diskHist,
                   delHist>>

\* What main does once find_orphaned_snapshots has returned.  print_summary,
\* print_snapshots and export_to_json only read the result list.
\* if args.delete or args.dry_run: ... the prompt, then the executor.
MainGate ==
    /\ mode = "main" /\ pc = "main_gate"
    /\ IF args.delete \/ args.dry_run
       THEN LET d == IF args.dry_run THEN TRUE ELSE FALSE
            IN  IF args.delete /\ ~args.dry_run
                THEN \/ \E answer \in Answers :
                          /\ confirmation' = PyStr(answer)
                          /\ IF Declined(answer) THEN MainReturn ELSE EnterDelete(d)
                     \/ \* input() raises EOFError
                        /\ Raise("main", "EOFError")
                        /\ UNCHANGED <<managerVars, findLocals, deleteLocals,
                                       confirmation, findHist, diskHist, delHist>>
                ELSE EnterDelete(d) /\ UNCHANGED confirmation
       ELSE MainReturn /\ UNCHANGED confirmation
    /\ UNCHANGED <<configVars, ops>>

\* -------------------------------------------------------------- Spec

Next ==
    \/ CallFind
    \/ CallDelete
    \/ GetSubscriptions
    \/ ListSnapshots
    \/ ScanSnapshot
    \/ FindReturn
    \/ DeleteOne
    \/ DeleteReturn
    \/ MainStart
    \/ MainGate

Spec == Init /\ [][Next]_vars

\* disk_exists alone, called by a client with any of the source ids.
InitDisk == Init /\ mode = "api" /\ tenant = <<>> /\ specific_subscription_id = None

NextDisk == CallDiskExists

SpecDisk == InitDisk /\ [][NextDisk]_vars

\* ============================================================ claims

IsReturn(op) == ret.kind = "return" /\ ret.op = op

\* A call has finished and no other has started since.
AtRest == pc \in {"idle", "exit", "main_gate"}

\* The begin_delete call the executor owes to a record of the list.
DeleteCallFor(record) ==
    [sub |-> record.subscription_id, resource_group |-> record.resource_group,
     name |-> record.name]

\* C1: for a non-empty orphan list of length N, a dry-run delete makes no
\* begin_delete call, while it runs and when it has returned, and returns (N, 0).
C1_DryRunDeletesNothing ==
    /\ (pc = "delete" /\ dry_run) =>
         /\ delCalls = <<>>
         /\ successful = di - 1
         /\ failed = 0
    /\ (AtRest /\ IsReturn("delete") /\ dry_run /\ orphaned_snapshots # <<>>) =>
         /\ delCalls = <<>>
         /\ ret.val = <<Len(orphaned_snapshots), 0>>

C1_Witness ==
    /\ AtRest /\ IsReturn("delete") /\ dry_run
    /\ Len(orphaned_snapshots) >= 2
    /\ ret.val = <<Len(orphaned_snapshots), 0>>
    /\ delCalls = <<>>

\* The answers that are y up to case.
YesAnswers == {<<"y">>, <<"Y">>}

ExecutorInvoked == pc = "delete" \/ IsReturn("delete")

\* C2: in a run of main, begin_delete is called only with --delete, without
\* --dry-run and after an answer of y or Y; after any other answer the
\* executor is not invoked; and with --dry-run the executor runs, once main
\* reaches it, with dry_run=True.
C2_DeletionGate ==
    mode = "main" =>
      /\ delCalls # <<>> =>
           /\ args.delete /\ ~args.dry_run
           /\ confirmation # None /\ confirmation.s \in YesAnswers
      /\ (confirmation # None /\ confirmation.s \notin YesAnswers) => ~ExecutorInvoked
      /\ (args.dry_run /\ ExecutorInvoked) => dry_run
      /\ (args.dry_run /\ pc = "exit" /\ status = 0) => IsReturn("delete")
      /\ (~args.delete /\ ~args.dry_run) => ~ExecutorInvoked

C2_Witness ==
    /\ mode = "main" /\ pc = "exit"
    /\ confirmation = PyStr(<<"Y">>)
    /\ Len(delCalls) >= 2

\* C3: when disks.get fails with a fault other than not-found, disk_exists
\* writes no cache entry for the key and the fault reaches the caller.
C3_FaultIsNotCached ==
    \A i \in 1..Len(lookups) :
      lookups[i].answer = "fault" =>
        /\ lookups[i].key \notin DOMAIN disk_cache
        /\ ret.kind = "raise"

\* C4: a non-dry-run delete over K records calls begin_delete for every
\* record, in list order, whichever of the calls fail, and returns
\* (K - |F|, |F|) for the set F of positions that failed.
C4_FailuresDoNotAbort ==
    /\ (pc = "delete" /\ ~dry_run) =>
         /\ Len(delCalls) = di - 1
         /\ \A i \in 1..(di - 1) : delCalls[i] = DeleteCallFor(orphaned_snapshots[i])
         /\ failed = Cardinality(faults)
         /\ successful = (di - 1) - Cardinality(faults)
    /\ (AtRest /\ IsReturn("delete") /\ ~dry_run /\ orphaned_snapshots # <<>>) =>
         /\ Len(delCalls) = Len(orphaned_snapshots)
         /\ \A i \in 1..Len(delCalls) : delCalls[i] = DeleteCallFor(orphaned_snapshots[i])
         /\ ret.val = <<Len(orphaned_snapshots) - Cardinality(faults),
                        Cardinality(faults)>>

C4_Witness ==
    /\ AtRest /\ IsReturn("delete") /\ ~dry_run
    /\ Len(orphaned_snapshots) >= 3
    /\ faults = {1}
    /\ Len(delCalls) = Len(orphaned_snapshots)
    /\ ret.val = <<Len(orphaned_snapshots) - 1, 1>>

\* The loop over the subscriptions has ended; find is about to return.
ScanDone == pc = "scan" /\ si > Len(subscriptions)

\* What one listed scope owes to the result: nothing if its listing failed,
\* else a record for each listed snapshot that has a source whose disk was
\* decided absent, in listing order.
ExpectedFrom(entry) ==
    IF ~entry.ok THEN <<>>
    ELSE LET subscription == [id |-> entry.sub, name |-> SubName(entry.sub)]
             Orphaned(snapshot) ==
               /\ HasSource(snapshot)
               /\ ~disk_cache[CacheKey(entry.sub, SourceOf(snapshot))]
             found == SelectSeq(entry.snapshots, Orphaned)
         IN  [i \in 1..Len(found) |-> OrphanRecord(subscription, found[i])]

RECURSIVE ExpectedResult(_)
ExpectedResult(i) ==
    IF i > Len(listed) THEN <<>>
    ELSE ExpectedFrom(listed[i]) \o ExpectedResult(i + 1)

\* C5: at the end of a scan every scope has been listed, in scope order,
\* whether or not an earlier listing failed; a scope whose listing failed
\* contributes no record and every other scope contributes its own records.
C5_ListingFaultIsIsolated ==
    ScanDone =>
      /\ Len(listed) = Len(subscriptions)
      /\ \A i \in 1..Len(listed) : listed[i].sub = subscriptions[i].id
      /\ orphaned_snapshots = ExpectedResult(1)

C5_Witness ==
    /\ ScanDone
    /\ Len(listed) = 2
    /\ ~listed[1].ok /\ listed[2].ok
    /\ orphaned_snapshots # <<>>

\* The structural validation of a source-disk id, as the specification words
\* it: at least 9 segments, segment 6 the provider, segment 7 the type.
FailsValidation(id) ==
    LET segments == Split(id, "/")
    IN  IF Len(segments) < 9 THEN TRUE
        ELSE segments[7] # <<"Microsoft.Compute">> \/ segments[8] # <<"disks">>

\* The snapshots one listing of this scan returned, as a set.
SnapshotsOf(entry) == {entry.snapshots[j] : j \in 1..Len(entry.snapshots)}

\* The cache keys of the listed snapshots whose source id is well formed.
ValidSources ==
    UNION {{CacheKey(listed[i].sub, SourceOf(s)) :
              s \in {t \in SnapshotsOf(listed[i]) :
                       HasSource(t) /\ ~FailsValidation(SourceOf(t))}} :
           i \in 1..Len(listed)}

\* C6: every scan starts from an empty result list and an empty cache, and
\* issues a disks.get call for each well-formed (scope, source id) it meets.
C6_ScanStartsFresh ==
    /\ pc = "get_subscriptions" => (orphaned_snapshots = <<>> /\ disk_cache = <<>>)
    /\ ScanDone => \A k \in ValidSources : \E i \in 1..Len(lookups) : lookups[i].key = k

NeverScannedDelete == scans = 0 /\ ret.kind # "none" /\ ret.op = "delete"

\* C7 as claimed: a delete before any scan fails with an error.
C7_DeleteBeforeScanFails == NeverScannedDelete => ret.kind = "raise"

\* C7 as amended: a delete before any scan returns (0, 0) and calls nothing,
\* which is also what a delete returns after a scan that found no orphans.
C7_DeleteBeforeScanReturnsZero ==
    /\ scans = 0 => (pc # "delete" /\ delCalls = <<>>)
    /\ NeverScannedDelete => ret = Returned("delete", <<0, 0>>)
    /\ (scans > 0 /\ AtRest /\ ret.kind # "none" /\ ret.op = "delete"
        /\ orphaned_snapshots = <<>>) =>
         (ret = Returned("delete", <<0, 0>>) /\ delCalls = <<>>)

C7_Witness == NeverScannedDelete /\ pc = "idle" /\ ops >= 1

\* C8: disk_exists on an id that fails validation returns False, calls
\* disks.get neither then nor later, and leaves False in the cache.
C8_InvalidIdIsFalse ==
    /\ (IsReturn("disk_exists") /\ FailsValidation(ret.val.id)) =>
         /\ ret.val.val = FALSE
         /\ lookups = <<>>
         /\ CacheKey(ret.val.sub, ret.val.id) \in DOMAIN disk_cache
         /\ disk_cache[CacheKey(ret.val.sub, ret.val.id)] = FALSE
    /\ \A k \in DOMAIN lookupCount : ~FailsValidation(SubSeq(k, 3, Len(k)))
    /\ \A k \in DOMAIN disk_cache :
         FailsValidation(SubSeq(k, 3, Len(k))) => disk_cache[k] = FALSE

C8_Witness ==
    /\ IsReturn("disk_exists")
    /\ ret.val.id = WrongProviderId
    /\ ret.val.hit
    /\ ret.val.val = FALSE
    /\ lookupCount = <<>>

\* A snapshot without a source-disk reference: no creation data, or no
\* source id in it, or a source id that is None or empty.
NoSourceRef(snapshot) ==
    IF "creation_data" \notin DOMAIN snapshot.o THEN TRUE
    ELSE IF snapshot.o.creation_data = None THEN TRUE
    ELSE IF "source_resource_id" \notin DOMAIN snapshot.o.creation_data.o THEN TRUE
    ELSE snapshot.o.creation_data.o.source_resource_id \in {None, PyStr(<<>>)}

ListedWithoutSource ==
    {s \in UNION {SnapshotsOf(listed[i]) : i \in 1..Len(listed)} : NoSourceRef(s)}

\* C9: a listed snapshot without a source-disk reference is in no record of
\* the result, and disk_exists is never asked about an absent source.
C9_NoSourceNeverOrphaned ==
    /\ \A s \in ListedWithoutSource :
         \A i \in 1..Len(orphaned_snapshots) : orphaned_snapshots[i].id # s.o.id
    /\ \A k \in DOMAIN disk_cache : Len(k) > 2
    /\ \A i \in 1..Len(orphaned_snapshots) : orphaned_snapshots[i].source_disk_id # <<>>

C9_Witness ==
    /\ AtRest /\ IsReturn("find")
    /\ \E s \in ListedWithoutSource : s.o.name = "b2"
    /\ Len(orphaned_snapshots) >= 2

\* The cache key of the snapshot the scan is about to examine.
CurrentKey == CacheKey(subscriptions[si].id, SourceOf(snapshots[ji]))

CacheOnlyGrows ==
    \A k \in DOMAIN disk_cache : k \in DOMAIN disk_cache' /\ disk_cache'[k] = disk_cache[k]

HitMakesNoCall ==
    (pc = "snapshot" /\ HasSource(snapshots[ji]) /\ CurrentKey \in DOMAIN disk_cache) =>
      /\ lookups' = lookups
      /\ lookupCount' = lookupCount
      /\ (orphaned_snapshots' # orphaned_snapshots) <=> ~disk_cache[CurrentKey]

\* C10: a populated cache key keeps its value and is never removed; a
\* disk_exists call on a populated key gives the cached value and calls
\* nothing; so disks.get is called at most once per key.
C10_CacheIsStable ==
    /\ [](\A k \in DOMAIN lookupCount : lookupCount[k] <= 1)
    /\ [][CacheOnlyGrows]_vars
    /\ [][HitMakesNoCall]_vars

C10_Witness ==
    /\ scans >= 2 /\ AtRest /\ IsReturn("find")
    /\ lookups = <<>>
    /\ \E i \in 1..Len(listed) :
         /\ listed[i].ok
         /\ \E j \in 1..Len(listed[i].snapshots) :
              /\ HasSource(listed[i].snapshots[j])
              /\ CacheKey(listed[i].sub, SourceOf(listed[i].snapshots[j]))
                   \in DOMAIN disk_cache
              /\ disk_cache[CacheKey(listed[i].sub, SourceOf(listed[i].snapshots[j]))]

\* ---- C11
\* The scope lookup of the running scan has raised.
ScopeLookupFailed == ret = Raised("find", "AzureError")

\* C11: when a single subscription id is configured and its lookup
\* fails, the run is fatal: no snapshots are listed, no disk is looked
\* up and nothing is deleted, for any subscription, and main ends with
\* status 1 (a client gets the exception).
C11_ScopeLookupFailureIsFatal ==
    (Truthy(specific_subscription_id) /\ ScopeLookupFailed /\ AtRest) =>
        /\ listed = <<>>
        /\ lookups = <<>>
        /\ delCalls = <<>>
        /\ orphaned_snapshots = <<>>
        /\ mode = "main" =>
             /\ pc = "exit"
             /\ status = 1
             /\ lookupCount = <<>>
             /\ disk_cache = <<>>

C11_Witness ==
    /\ mode = "main" /\ args.delete
    /\ Truthy(specific_subscription_id)
    /\ Lookup(tenant, specific_subscription_id.s[1]) = <<>>
    /\ tenant # <<>>
    /\ ScopeLookupFailed
    /\ pc = "exit" /\ status = 1

\* ---- C12
\* A delete_orphaned_snapshots(dry_run=False) call is running or has just
\* returned.
InRealDelete == ~dry_run /\ (pc = "delete" \/ (AtRest /\ IsReturn("delete")))

\* How many begin_delete calls of the running invocation name this record.
CallsFor(record) ==
    Cardinality({k \in 1..Len(delCalls) : delCalls[k] = DeleteCallFor(record)})

\* C12: in one delete_orphaned_snapshots(dry_run=False) call begin_delete
\* is called exactly once for each record of the list: once the loop has
\* passed a record it has one call, whether it succeeded or raised, and a
\* record the loop has not reached has none.
C12_OneDeleteCallPerRecord ==
    InRealDelete =>
        /\ \A k \in 1..Len(delCalls) :
             \E i \in 1..Len(orphaned_snapshots) :
               delCalls[k] = DeleteCallFor(orphaned_snapshots[i])
        /\ \A i \in 1..Len(orphaned_snapshots) :
             CallsFor(orphaned_snapshots[i]) = IF i < di THEN 1 ELSE 0

C12_Witness ==
    /\ InRealDelete /\ AtRest
    /\ Len(orphaned_snapshots) >= 2
    /\ 1 \in faults
    /\ 2 \notin faults
    /\ CallsFor(orphaned_snapshots[1]) = 1
    /\ CallsFor(orphaned_snapshots[2]) = 1

\* ---- C13
\* The snapshots of one listing that the scan has examined so far: all of
\* them, or those before the loop's position in the listing being examined.
Examined(i) ==
    IF i = Len(listed) /\ pc = "snapshot"
    THEN SubSeq(listed[i].snapshots, 1, ji - 1)
    ELSE listed[i].snapshots

\* disk_exists answered False for this snapshot's source in this scope.
DecidedAbsent(sub, snapshot) ==
    /\ ~NoSourceRef(snapshot)
    /\ LET key == CacheKey(sub, snapshot.o.creation_data.o.source_resource_id.s)
       IN  key \in DOMAIN disk_cache /\ disk_cache[key] = FALSE

\* The examined snapshots decided absent, from listing i on, in discovery
\* order: subscription order, then listing order.
RECURSIVE Discovered(_)
Discovered(i) ==
    IF i > Len(listed) THEN <<>>
    ELSE LET hit == SelectSeq(Examined(i),
                              LAMBDA s : DecidedAbsent(listed[i].sub, s))
         IN  [j \in 1..Len(hit) |-> <<listed[i].sub, hit[j].o.id>>]
               \o Discovered(i + 1)

\* The snapshots the result names, in the result's order.
Named(records) ==
    [j \in 1..Len(records) |-> <<records[j].subscription_id, records[j].id>>]

IsPrefix(s, t) == Len(s) <= Len(t) /\ s = SubSeq(t, 1, Len(s))

\* The orphan list names the snapshots discovered so far, and find returns it.
ResultIsDiscovered ==
    /\ Named(orphaned_snapshots) = Discovered(1)
    /\ (AtRest /\ IsReturn("find")) => ret.val = orphaned_snapshots

\* A step of a scan only appends to the orphan list.
ScanOnlyAppends ==
    pc \in {"scan", "snapshot"} => IsPrefix(orphaned_snapshots, orphaned_snapshots')

\* C13: at every point of a scan, and after it, the orphan list names
\* exactly the examined snapshots that have a source-disk reference for
\* which disk_exists answered False, in discovery order; find returns that
\* list; and a step of a scan only appends to it.
C13_ResultIsDiscoveryOrder == []ResultIsDiscovered /\ [][ScanOnlyAppends]_vars

C13_Witness ==
    /\ AtRest /\ IsReturn("find")
    /\ Len(listed) = 2
    /\ Len(ExpectedFrom(listed[1])) >= 1
    /\ Len(ExpectedFrom(listed[2])) >= 2
    /\ \E i \in 1..Len(listed) : \E s \in SnapshotsOf(listed[i]) :
         ~NoSourceRef(s) /\ ~DecidedAbsent(listed[i].sub, s)
    /\ Len(orphaned_snapshots) >= 3

\* ---- C14
\* The records of the scan before the most recent one that the most recent
\* scan did not find again.
Stale ==
    {prevScan[i] : i \in 1..Len(prevScan)}
        \ {orphaned_snapshots[i] : i \in 1..Len(orphaned_snapshots)}

\* The begin_delete calls the most recent scan's discoveries stand for.
CallsOfLastScan ==
    LET found == ExpectedResult(1)
    IN  {DeleteCallFor(found[i]) : i \in 1..Len(found)}

\* C14: every begin_delete call is for a record the most recent scan
\* discovered; a record of the scan before it that the most recent scan
\* did not find is never passed to begin_delete.
C14_DeleteUsesLastScanOnly ==
    /\ \A k \in 1..Len(delCalls) : delCalls[k] \in CallsOfLastScan
    /\ \A record \in Stale :
         \A k \in 1..Len(delCalls) : delCalls[k] # DeleteCallFor(record)

C14_Witness ==
    /\ scans = 2
    /\ Stale # {}
    /\ ~dry_run /\ AtRest /\ IsReturn("delete")
    /\ delCalls # <<>>
    /\ Len(delCalls) = Len(orphaned_snapshots)

\* ---- C15
\* The listed snapshots of this scan a record was made from.
ListedAs(record) ==
    UNION {{s \in SnapshotsOf(listed[i]) : s.o.id = record.id} :
             i \in {k \in 1..Len(listed) : listed[k].sub = record.subscription_id}}

\* The attribute is absent from the snapshot, or present and None.
AbsentOrNull(snapshot, attr) ==
    attr \notin DOMAIN snapshot.o \/ snapshot.o[attr] = None

\* size_gb is a number, and 0 when the snapshot's size is absent or None.
SizeDefaults(record, snapshot) ==
    /\ record.size_gb.t = "int"
    /\ AbsentOrNull(snapshot, "disk_size_gb") => record.size_gb = PyInt(0)

\* created_time is "Unknown" when the creation time is absent or None.
TimeDefaults(record, snapshot) ==
    AbsentOrNull(snapshot, "time_created") => record.created_time = Unknown

\* tags is the empty mapping when the tags are absent or None.
TagsDefaults(record, snapshot) ==
    AbsentOrNull(snapshot, "tags") => record.tags = PyDict(<<>>)

\* C15: every record has a numeric size_gb that is 0 when the snapshot's
\* size is absent or None, a created_time of "Unknown" when its creation
\* time is absent or None, and empty tags when its tags are absent or None.
C15_RecordDefaults ==
    \A i \in 1..Len(orphaned_snapshots) :
      \A s \in ListedAs(orphaned_snapshots[i]) :
        /\ SizeDefaults(orphaned_snapshots[i], s)
        /\ TimeDefaults(orphaned_snapshots[i], s)
        /\ TagsDefaults(orphaned_snapshots[i], s)

\* The same with the size left out: the two defaults the code does apply
\* to a None value.
TimeAndTagsDefaults ==
    \A i \in 1..Len(orphaned_snapshots) :
      \A s \in ListedAs(orphaned_snapshots[i]) :
        /\ TimeDefaults(orphaned_snapshots[i], s)
        /\ TagsDefaults(orphaned_snapshots[i], s)

\* The size default where the code applies it: the attribute is absent.
SizeDefaultWhenAbsent ==
    \A i \in 1..Len(orphaned_snapshots) :
      \A s \in ListedAs(orphaned_snapshots[i]) :
        "disk_size_gb" \notin DOMAIN s.o => orphaned_snapshots[i].size_gb = PyInt(0)

\* ---- C16
\* A step of delete_orphaned_snapshots: its entry, a turn of its loop or
\* its return.
DeleteStepTaken ==
    \/ pc = "delete"
    \/ pc' = "delete"
    \/ pc' \in {"idle", "exit"} /\ ret'.kind # "none" /\ ret'.op = "delete"

\* No step of delete_orphaned_snapshots changes the orphan list or the cache.
DeleteKeepsManager == DeleteStepTaken => UNCHANGED <<orphaned_snapshots, disk_cache>>

\* A delete_orphaned_snapshots(dry_run=False) call that has returned has
\* called begin_delete for every record of the list, in order, whatever
\* earlier calls since the scan have deleted.
RealDeleteCallsAll ==
    (~dry_run /\ AtRest /\ IsReturn("delete")) =>
        delCalls = [i \in 1..Len(orphaned_snapshots) |->
                      DeleteCallFor(orphaned_snapshots[i])]

\* C16: delete_orphaned_snapshots leaves the orphan list and the cache as
\* they were, for both values of dry_run; a deleted record stays in the
\* list, so a later non-dry-run call without a new scan calls begin_delete
\* for every record again.
C16_DeleteKeepsListAndCache == [][DeleteKeepsManager]_vars /\ []RealDeleteCallsAll

\* A non-dry-run call has returned after an earlier call since the same
\* scan had deleted a record: it called begin_delete for every record.
C16_Witness ==
    /\ ~dry_run /\ AtRest /\ IsReturn("delete")
    /\ okDeletes > successful
    /\ Len(orphaned_snapshots) >= 2
    /\ Len(delCalls) = Len(orphaned_snapshots)
    /\ disk_cache # <<>>

\* ---- C17
\* The source id a disks.get call of the scan was made for: its cache key
\* without the subscription and the colon.
IdOf(lookup) == SubSeq(lookup.key, 3, Len(lookup.key))

\* The source id names a subscription other than this one.
NamesOtherScope(sub, id) == Split(id, "/")[3] # <<sub>>

\* The call goes to the client of a subscription that listed a snapshot
\* with this source id, with segments 4 and 8 of the id (counted from 0).
IssuedToListingScope(lookup) ==
    /\ lookup.sub = lookup.key[1]
    /\ lookup.resource_group = Split(IdOf(lookup), "/")[5]
    /\ lookup.disk_name = Split(IdOf(lookup), "/")[9]
    /\ \E i \in 1..Len(listed) :
         /\ listed[i].sub = lookup.sub
         /\ \E s \in SnapshotsOf(listed[i]) :
              /\ ~NoSourceRef(s)
              /\ s.o.creation_data.o.source_resource_id.s = IdOf(lookup)

\* C17: every disks.get call of a scan goes to the client of the
\* subscription whose listing held the snapshot, with the resource group
\* and the name of the source id, whatever subscription the id names; the
\* answer of that call decides the cached value, and an examined snapshot
\* whose source id names another subscription is in the result exactly if
\* that value is False.
C17_LookupInListingScope ==
    /\ \A k \in 1..Len(lookups) :
         /\ IssuedToListingScope(lookups[k])
         /\ disk_cache[lookups[k].key] = (lookups[k].answer = "found")
    /\ \A i \in 1..Len(listed) :
         \A j \in 1..Len(Examined(i)) :
           LET s == Examined(i)[j]
           IN  (~NoSourceRef(s) /\ ~FailsValidation(s.o.creation_data.o.source_resource_id.s)
                /\ NamesOtherScope(listed[i].sub, s.o.creation_data.o.source_resource_id.s)) =>
                 (\E r \in 1..Len(orphaned_snapshots) :
                      /\ orphaned_snapshots[r].subscription_id = listed[i].sub
                      /\ orphaned_snapshots[r].id = s.o.id)
                   <=> DecidedAbsent(listed[i].sub, s)

\* A scan has returned in which the disk of a snapshot whose source id
\* names another subscription was looked up, and found, in the listing
\* subscription, so that the snapshot is not in the result.
C17_Witness ==
    /\ AtRest /\ IsReturn("find")
    /\ \E k \in 1..Len(lookups) :
         /\ NamesOtherScope(lookups[k].sub, IdOf(lookups[k]))
         /\ lookups[k].answer = "found"
         /\ lookups[k].sub = "sub-A"
         /\ \A r \in 1..Len(orphaned_snapshots) :
              orphaned_snapshots[r].source_disk_id # IdOf(lookups[k])
    /\ orphaned_snapshots # <<>>

====
